---------------------------- MODULE Spec2Model ----------------------------
(***************************************************************************)
(* NYC Yellow Taxi dashboard (app.py and pages/1_Dashboard.py).            *)
(*                                                                         *)
(* Two state machines share this module:                                   *)
(*   - the loaders: load_overview_data (app.py) and load_data              *)
(*     (1_Dashboard.py) with their download_file calls, over the local     *)
(*     files, the st.cache_data memo of each function and the network.     *)
(*     A run of a loader is a sequence of steps, one per blocking call,    *)
(*     and the runs of the two loaders interleave;                         *)
(*   - the dashboard script: the memoised load, the sidebar filters, the   *)
(*     filtered frame and the four cached aggregations.                    *)
(*                                                                         *)
(* Units: timestamps are minutes since 2024-01-01 00:00 (a Monday),        *)
(* distances whole miles, fares whole dollars.  A cell of a frame is a     *)
(* record [k, v]: k = "ok" (v is the value), "null" (NaN / NaT / None) or  *)
(* "bad" (a string that pd.to_datetime cannot parse).  Float results that  *)
(* are not finite are the cells "inf", "-inf" and "nan".                   *)
(***************************************************************************)
EXTENDS Integers, Sequences, FiniteSets, TLC

VARIABLES
    \* ---- loader ----
    remoteTrips,    \* rows of the remote trip file (TRIPS_URL)
    tripsFile,      \* RAW_TRIPS_PATH: [exists, chunks]
    zonesFile,      \* RAW_ZONES_PATH: [exists, chunks]
    cleanFile,      \* CLEAN_PATH: [exists, ok, rows]
    memoOverview,   \* st.cache_data entry of load_overview_data: [has, df]
    memoDashboard,  \* st.cache_data entry of load_data: [has, df]
    outcome,        \* last page load: "none" | "ok" | "FetchError" |
                    \* "ReadError" | "ParseError" (pd.to_datetime raised)
    loaded,         \* frame returned by the last successful load
    calls,          \* per raw path: download_file calls
    requests,       \* per raw path: requests.get calls issued
    writes,         \* per raw path: times the path was opened for writing
    cleanRuns,      \* times the cleaning steps (to_datetime .. features) ran
    persists,       \* times CLEAN_PATH was written
    loads,          \* loader runs that missed the memo
    pc,             \* per loader: the blocking call its run is at
    \* ---- dashboard script ----
    df,                 \* frame returned by load_data()
    tieOrder,           \* how this build's quicksort leaves equal keys
    date_range,         \* the tuple st.sidebar.date_input returned
    start_date, end_date, hour_min, hour_max, selected_payments,
    filtered,           \* the filtered frame
    top10, hourly_fare, pay, pivot,   \* the four pre-aggregations
    stage               \* "start" | "raised" (an exception ended the run) |
                        \* "stopped" (st.stop) | "rendered"

loaderVars == <<remoteTrips, tripsFile, zonesFile, cleanFile, memoOverview,
                memoDashboard, outcome, loaded, calls, requests, writes,
                cleanRuns, persists, loads, pc>>
dashVars == <<df, tieOrder, date_range, start_date, end_date, hour_min, hour_max,
              selected_payments, filtered, top10, hourly_fare, pay, pivot, stage>>
vars == <<loaderVars, dashVars>>

----------------------------------------------------------------------------
(* Bounds of the model *)

\* longest remote trip file, in rows
MaxRawRows == 2
\* loader runs that miss the memo in one behaviour
MaxLoads == 2
\* zones in the lookup that carry a name
NumZones == 11

----------------------------------------------------------------------------
(* Cells *)

Cell(v) == [k |-> "ok", v |-> v]
Null == [k |-> "null", v |-> 0]
Bad == [k |-> "bad", v |-> 0]

IsOk(c) == c.k = "ok"

\* pandas comparisons: any comparison with NaN / NaT is False
Gt(c, n) == IsOk(c) /\ c.v > n
Ge(c, n) == IsOk(c) /\ c.v >= n
Lt(c, n) == IsOk(c) /\ c.v < n
Le(c, n) == IsOk(c) /\ c.v <= n
GeCell(a, b) == IsOk(a) /\ IsOk(b) /\ a.v >= b.v

----------------------------------------------------------------------------
(* Calendar *)

DAY_ORDER == <<"Monday", "Tuesday", "Wednesday", "Thursday", "Friday",
               "Saturday", "Sunday">>

MinutesPerDay == 24 * 60
\* "2024-01-01" and "2024-02-01" as minutes since 2024-01-01 00:00
MonthStart == 0
MonthEnd == 31 * MinutesPerDay

\* \div and % are floor division and modulus, as dt.date / dt.hour need
DtDate(t) == t \div MinutesPerDay
DtHour(t) == (t % MinutesPerDay) \div 60
\* 2024-01-01 is a Monday
DtDayName(t) == DAY_ORDER[(DtDate(t) % 7) + 1]

----------------------------------------------------------------------------
(* Remote inputs *)

\* the spec's example trip: 2024-01-05 08:00 -> 08:15, 2 miles, $10
GoodRow ==
    [tpep_pickup_datetime  |-> Cell(4 * MinutesPerDay + 8 * 60),
     tpep_dropoff_datetime |-> Cell(4 * MinutesPerDay + 8 * 60 + 15),
     PULocationID    |-> Cell(1),
     DOLocationID    |-> Cell(2),
     trip_distance   |-> Cell(2),
     fare_amount     |-> Cell(10),
     passenger_count |-> Cell(1),
     payment_type    |-> Cell(1)]

PickupCells ==
    {Null, Bad, Cell(MonthStart - 1), Cell(MonthStart), Cell(MonthEnd - 1),
     Cell(MonthEnd)}
DropoffCells ==
    {Null, Bad, Cell(GoodRow.tpep_pickup_datetime.v),
     Cell(GoodRow.tpep_pickup_datetime.v - 1), Cell(MonthEnd + 5)}
DistanceCells == {Null, Cell(-5), Cell(0), Cell(49), Cell(50)}
FareCells == {Null, Cell(-1), Cell(0), Cell(500), Cell(501)}
PassengerCells == {Null, Cell(0), Cell(2)}

\* raw rows: the good trip with at most one cell replaced
RawRows ==
    {GoodRow}
    \cup {[GoodRow EXCEPT !.tpep_pickup_datetime = c] : c \in PickupCells}
    \cup {[GoodRow EXCEPT !.tpep_dropoff_datetime = c] : c \in DropoffCells}
    \cup {[GoodRow EXCEPT !.trip_distance = c] : c \in DistanceCells}
    \cup {[GoodRow EXCEPT !.fare_amount = c] : c \in FareCells}
    \cup {[GoodRow EXCEPT !.passenger_count = c] : c \in PassengerCells}
    \cup {[GoodRow EXCEPT !.PULocationID = Null],
          [GoodRow EXCEPT !.PULocationID = Cell(NumZones)],
          [GoodRow EXCEPT !.DOLocationID = Null]}

SeqsUpTo(S, n) == UNION {[1..m -> S] : m \in 0..n}

\* remote trip files: empty, or one raw row among copies of the good trip
Pad(n) == [i \in 1..n |-> GoodRow]
RawFrames ==
    {<<>>}
    \cup {Pad(x[2]) \o <<x[1]>> \o Pad(x[3]) :
            x \in {y \in RawRows \X (0..(MaxRawRows - 1)) \X (0..(MaxRawRows - 1)) :
                      y[2] + y[3] < MaxRawRows}}

----------------------------------------------------------------------------
(* Cleaning: the else-branch of load_data / load_overview_data *)

\* pd.to_datetime(errors="raise", the default) on both timestamp columns
ToDatetimeRaises(frame) ==
    \E i \in 1..Len(frame) :
        \/ frame[i].tpep_pickup_datetime.k = "bad"
        \/ frame[i].tpep_dropoff_datetime.k = "bad"

\* (pickup >= "2024-01-01") & (pickup < "2024-02-01")
InJanuary(r) ==
    /\ Ge(r.tpep_pickup_datetime, MonthStart)
    /\ Lt(r.tpep_pickup_datetime, MonthEnd)

\* dropna(subset=critical_cols)
NoCriticalNull(r) ==
    /\ IsOk(r.tpep_pickup_datetime)
    /\ IsOk(r.tpep_dropoff_datetime)
    /\ IsOk(r.PULocationID)
    /\ IsOk(r.DOLocationID)
    /\ IsOk(r.fare_amount)

MAX_FARE == 500
MAX_DISTANCE == 50

RangeFiltersNoUpperDistance(r) ==
    /\ Gt(r.trip_distance, 0)
    /\ Ge(r.fare_amount, 0) /\ Le(r.fare_amount, MAX_FARE)
    /\ GeCell(r.tpep_dropoff_datetime, r.tpep_pickup_datetime)
    /\ Gt(r.passenger_count, 0)

\* the five range filters, a conjunction whatever their order
RangeFilters(r) ==
    /\ Gt(r.trip_distance, 0)
    /\ Ge(r.fare_amount, 0) /\ Le(r.fare_amount, MAX_FARE)
    /\ GeCell(r.tpep_dropoff_datetime, r.tpep_pickup_datetime)
    /\ Gt(r.passenger_count, 0)
    /\ Lt(r.trip_distance, MAX_DISTANCE)

\* (dropoff - pickup).dt.total_seconds() / 60
TripDurationMinutes(r) ==
    r.tpep_dropoff_datetime.v - r.tpep_pickup_datetime.v

\* float division distance / (minutes / 60): x/0 is inf, -inf or nan;
\* a finite quotient is kept as its integer part, in mph
FloatDiv(distance, minutes) ==
    IF minutes = 0
    THEN IF distance > 0 THEN [k |-> "inf", v |-> 0]
         ELSE IF distance < 0 THEN [k |-> "-inf", v |-> 0]
         ELSE [k |-> "nan", v |-> 0]
    ELSE Cell((distance * 60) \div minutes)

\* .replace([inf, -inf], 0).fillna(0)
ReplaceInfFillna(c) ==
    IF c.k \in {"inf", "-inf"} THEN Cell(0)
    ELSE IF c.k \in {"nan", "null"} THEN Cell(0)
    ELSE c

TripSpeedMphRaw(r) ==
    FloatDiv(r.trip_distance.v, TripDurationMinutes(r))

TripSpeedMph(r) ==
    ReplaceInfFillna(FloatDiv(r.trip_distance.v, TripDurationMinutes(r)))

\* the four engineered columns
Features(r) ==
    r @@ [trip_duration_minutes |-> TripDurationMinutes(r),
          trip_speed_mph     |-> TripSpeedMph(r),
          pickup_hour        |-> DtHour(r.tpep_pickup_datetime.v),
          pickup_day_of_week |-> DtDayName(r.tpep_pickup_datetime.v)]

\* the feature columns assigned on every row
WithFeatures(frame) == [i \in 1..Len(frame) |-> Features(frame[i])]

\* the cleaned frame of a raw frame on which to_datetime did not raise
CleanRows(frame) ==
    WithFeatures(SelectSeq(SelectSeq(SelectSeq(frame, InJanuary),
                                     NoCriticalNull),
                           RangeFilters))

\* df["pickup_date"] = df["tpep_pickup_datetime"].dt.date
WithPickupDate(r) ==
    [x \in (DOMAIN r) \cup {"pickup_date"} |->
        IF x = "pickup_date" THEN DtDate(r.tpep_pickup_datetime.v) ELSE r[x]]

WithPickupDates(frame) == [i \in 1..Len(frame) |-> WithPickupDate(frame[i])]

----------------------------------------------------------------------------
(* Enrichment: the tail of load_data *)

\* taxi_zone_lookup.csv[["LocationID", "Borough", "Zone"]]: names are coded
\* by their rank in string order; the last entry is a zone whose Borough
\* and Zone read_csv parses as NaN ("N/A")
ZONE_LOOKUP ==
    [i \in 1..(NumZones + 1) |->
        [LocationID |-> Cell(i),
         Borough |-> IF i <= NumZones THEN Cell(1 + (i % 2)) ELSE Null,
         Zone    |-> IF i <= NumZones THEN Cell(100 + i) ELSE Null]]

PAYMENT_MAP ==
    [c \in 0..6 |->
        CASE c = 0 -> "Flex Fare"
          [] c = 1 -> "Credit Card"
          [] c = 2 -> "Cash"
          [] c = 3 -> "No Charge"
          [] c = 4 -> "Dispute"
          [] c = 5 -> "Unknown"
          [] c = 6 -> "Voided Trip"]

PaymentNameNoFill(c) ==
    IF IsOk(c) /\ c.v \in DOMAIN PAYMENT_MAP THEN Cell(PAYMENT_MAP[c.v])
    ELSE Null

\* df["payment_type"].map(PAYMENT_MAP).fillna("Other")
PaymentName(c) ==
    IF IsOk(c) /\ c.v \in DOMAIN PAYMENT_MAP THEN Cell(PAYMENT_MAP[c.v])
    ELSE Cell("Other")

\* merge(zones_pickup, left_on="PULocationID", right_on="LocationID",
\* how="left"): LocationID is unique in the lookup, so each trip keeps
\* exactly one row, with nulls when no zone matches
MergeZone(r, zones) ==
    LET hit == {i \in 1..Len(zones) :
                    IsOk(r.PULocationID) /\ zones[i].LocationID = r.PULocationID}
        z == IF hit = {} THEN [LocationID |-> Null, Borough |-> Null, Zone |-> Null]
             ELSE zones[CHOOSE i \in hit : TRUE]
    IN r @@ [LocationID |-> z.LocationID,
             pickup_borough |-> z.Borough,
             pickup_zone |-> z.Zone]

EnrichRow(r, zones) ==
    MergeZone(WithPickupDate(r) @@ [payment_name |-> PaymentName(r.payment_type)],
              zones)

\* lines 92-106 of load_data with the lookup read on line 58, rows in
\* their order
Enrich(frame, zones) == [i \in 1..Len(frame) |-> EnrichRow(frame[i], zones)]

----------------------------------------------------------------------------
(* Fetcher and loaders, one step per blocking call *)

Paths == {"RAW_TRIPS_PATH", "RAW_ZONES_PATH"}

\* the two @st.cache_data functions.  Each has its own memo, and Streamlit
\* runs every session's script in a thread of its own, so a run of one can
\* overlap a run of the other
Loaders == {"load_overview_data", "load_data"}

\* 1 MiB chunks iter_content yields for each remote file
NumChunks == 2

NoFrame == [has |-> FALSE, df |-> <<>>]

\* a raw path: whether it exists and, chunk by chunk, whether the bytes at
\* that offset are the remote ones (TRUE) or the zeros of a hole (FALSE)
Absent == [exists |-> FALSE, chunks |-> <<>>]
Opened == [exists |-> TRUE, chunks |-> <<>>]
WholeFile == [exists |-> TRUE, chunks |-> [i \in 1..NumChunks |-> TRUE]]

Complete(file) == file.exists /\ file.chunks = WholeFile.chunks

\* f.write(chunk) on a handle whose offset is before chunk k: the chunk
\* lands at its offset; when the file is shorter than that, the gap reads
\* as zeros
WriteAt(chunks, k) ==
    [i \in 1..(IF Len(chunks) > k THEN Len(chunks) ELSE k) |->
        IF i = k THEN TRUE
        ELSE IF i <= Len(chunks) THEN chunks[i] ELSE FALSE]

\* CLEAN_PATH: whether it exists, whether it is a readable parquet file (a
\* file still being written, or written by two loaders at once, is not),
\* and the rows it then holds
NoFile == [exists |-> FALSE, ok |-> FALSE, rows |-> <<>>]
Unreadable == [exists |-> TRUE, ok |-> FALSE, rows |-> <<>>]
Artifact(rows) == [exists |-> TRUE, ok |-> TRUE, rows |-> rows]

\* where a loader's run is: the blocking call it is at, the path a
\* download_file call is for, the chunks its handle has written, the chunks
\* of the zone csv that load_data read, and whether the other loader had
\* CLEAN_PATH open for writing at some moment this one had
At(step, p) ==
    [step |-> step, path |-> p, off |-> 0, zc |-> {}, mixed |-> FALSE]
Idle == At("idle", "none")

Other(th) == CHOOSE o \in Loaders : o # th

File(p) == IF p = "RAW_TRIPS_PATH" THEN tripsFile ELSE zonesFile

SetFile(p, v) ==
    IF p = "RAW_TRIPS_PATH"
    THEN tripsFile' = v /\ UNCHANGED zonesFile
    ELSE zonesFile' = v /\ UNCHANGED tripsFile

Memo(th) == IF th = "load_overview_data" THEN memoOverview ELSE memoDashboard

SetMemo(th, m) ==
    IF th = "load_overview_data"
    THEN memoOverview' = m /\ UNCHANGED memoDashboard
    ELSE memoDashboard' = m /\ UNCHANGED memoOverview

\* the loader moves on to another call of the same run
Goto(th, step, p) ==
    pc' = [pc EXCEPT ![th] = [@ EXCEPT !.step = step, !.path = p, !.off = 0]]

\* where a loader goes once download_file(url, p) has returned: the second
\* download after the first; after the second, load_data reads the zone csv
\* and load_overview_data tests CLEAN_PATH
AfterDownload(th, p) ==
    IF p = "RAW_TRIPS_PATH" THEN Goto(th, "exists", "RAW_ZONES_PATH")
    ELSE IF th = "load_data" THEN Goto(th, "zones", "none")
    ELSE Goto(th, "body", "none")

\* the lookup read_csv returns from the chunks zc of the zone csv
ChunkOf(i) == (((i - 1) * NumChunks) \div Len(ZONE_LOOKUP)) + 1
ZonesRead(zc) ==
    SelectSeq(ZONE_LOOKUP, LAMBDA z : ChunkOf(z.LocationID.v) \in zc)

\* the frame a loader returns from the rows of CLEAN_PATH
Returned(th, rows) ==
    IF th = "load_overview_data" THEN WithPickupDates(rows)
    ELSE Enrich(rows, ZonesRead(pc[th].zc))

\* the rows a loader writes to CLEAN_PATH from the raw trip file
Cleaned(th) ==
    IF th = "load_overview_data" THEN WithPickupDates(CleanRows(remoteTrips))
    ELSE CleanRows(remoteTrips)

\* an exception leaves the loader: nothing is memoised, the run is over
Raise(th, exc) ==
    /\ outcome' = exc
    /\ pc' = [pc EXCEPT ![th] = Idle]
    /\ UNCHANGED <<loaded, memoOverview, memoDashboard>>

\* the loader returns `frame`, which st.cache_data memoises
Return(th, frame) ==
    /\ outcome' = "ok"
    /\ loaded' = frame
    /\ SetMemo(th, [has |-> TRUE, df |-> frame])
    /\ pc' = [pc EXCEPT ![th] = Idle]

\* df = load_overview_data() / df = load_data(): a memo hit returns the
\* memoised frame, a miss enters the function
StartLoad(th) ==
    /\ pc[th] = Idle
    /\ IF Memo(th).has
       THEN /\ outcome' = "ok"
            /\ loaded' = Memo(th).df
            /\ UNCHANGED <<pc, loads>>
       ELSE /\ loads < MaxLoads
            /\ loads' = loads + 1
            /\ Goto(th, "exists", "RAW_TRIPS_PATH")
            /\ UNCHANGED <<outcome, loaded>>
    /\ UNCHANGED <<remoteTrips, tripsFile, zonesFile, cleanFile, memoOverview,
                   memoDashboard, calls, requests, writes, cleanRuns,
                   persists, dashVars>>

\* download_file up to its early return: os.path.exists(path)
CheckExists(th) ==
    /\ pc[th].step = "exists"
    /\ LET p == pc[th].path
       IN /\ calls' = [calls EXCEPT ![p] = @ + 1]
          /\ IF File(p).exists THEN AfterDownload(th, p)
             ELSE Goto(th, "get", p)
    /\ UNCHANGED <<remoteTrips, tripsFile, zonesFile, cleanFile, memoOverview,
                   memoDashboard, outcome, loaded, requests, writes,
                   cleanRuns, persists, loads, dashVars>>

\* requests.get, raise_for_status and open(path, "wb"): the request either
\* raises (timeout, connection error, HTTP status) or the path is opened
\* and truncated, whatever it held by then
Request(th) ==
    /\ pc[th].step = "get"
    /\ LET p == pc[th].path
       IN /\ requests' = [requests EXCEPT ![p] = @ + 1]
          /\ \E net \in {"ok", "status", "timeout"} :
                IF net = "ok"
                THEN /\ SetFile(p, Opened)
                     /\ writes' = [writes EXCEPT ![p] = @ + 1]
                     /\ Goto(th, "stream", p)
                     /\ UNCHANGED <<outcome, loaded, memoOverview,
                                    memoDashboard>>
                ELSE /\ Raise(th, "FetchError")
                     /\ UNCHANGED <<tripsFile, zonesFile, writes>>
    /\ UNCHANGED <<remoteTrips, cleanFile, calls, cleanRuns, persists, loads,
                   dashVars>>

\* one turn of the iter_content loop: the next chunk arrives and is written
\* at the offset of this call's handle, or the stream raises and the file
\* stays as the chunks written so far left it.  After the last chunk the
\* file is closed and download_file returns
Stream(th) ==
    /\ pc[th].step = "stream"
    /\ LET p == pc[th].path
           k == pc[th].off + 1
       IN \E net \in {"ok", "stream_error"} :
             IF net = "ok"
             THEN /\ SetFile(p, [File(p) EXCEPT !.chunks = WriteAt(@, k)])
                  /\ IF k = NumChunks THEN AfterDownload(th, p)
                     ELSE pc' = [pc EXCEPT ![th].off = k]
                  /\ UNCHANGED <<outcome, loaded, memoOverview, memoDashboard>>
             ELSE /\ Raise(th, "FetchError")
                  /\ UNCHANGED <<tripsFile, zonesFile>>
    /\ UNCHANGED <<remoteTrips, cleanFile, calls, requests, writes, cleanRuns,
                   persists, loads, dashVars>>

\* load_data: zones = pd.read_csv(RAW_ZONES_PATH)[[...]].  An empty file or
\* one whose first chunk, the header's, is zeros raises; a file cut short
\* reads as the rows that are there; zeros further on either break the
\* parse or leave the rows outside them
ReadZones(th) ==
    /\ pc[th].step = "zones"
    /\ LET c == zonesFile.chunks
           there == {i \in 1..Len(c) : c[i]}
       IN IF c = <<>> \/ ~c[1]
          THEN Raise(th, "ReadError")
          ELSE \E parsed \in (IF there = 1..Len(c) THEN {TRUE} ELSE BOOLEAN) :
                  IF parsed
                  THEN /\ pc' = [pc EXCEPT ![th] =
                                   [@ EXCEPT !.step = "body", !.zc = there]]
                       /\ UNCHANGED <<outcome, loaded, memoOverview,
                                      memoDashboard>>
                  ELSE Raise(th, "ReadError")
    /\ UNCHANGED <<remoteTrips, tripsFile, zonesFile, cleanFile, calls,
                   requests, writes, cleanRuns, persists, loads, dashVars>>

\* the branch on CLEAN_PATH: an artifact that exists is read and its frame
\* returned; read_parquet raises on one that is not a whole parquet file
ReadArtifact(th) ==
    /\ pc[th].step = "body"
    /\ IF cleanFile.exists
       THEN IF cleanFile.ok
            THEN Return(th, Returned(th, cleanFile.rows))
            ELSE Raise(th, "ReadError")
       ELSE /\ Goto(th, "build", "none")
            /\ UNCHANGED <<outcome, loaded, memoOverview, memoDashboard>>
    /\ UNCHANGED <<remoteTrips, tripsFile, zonesFile, cleanFile, calls,
                   requests, writes, cleanRuns, persists, loads, dashVars>>

\* the else-branch up to the moment to_parquet has opened CLEAN_PATH: read
\* the raw trip file, clean it, create the artifact's file.  A trip file
\* that is cut short has no footer, one with a hole has zeros where page
\* headers and compressed pages were: read_parquet raises on both
BuildArtifact(th) ==
    /\ pc[th].step = "build"
    /\ IF ~Complete(tripsFile)
       THEN /\ Raise(th, "ReadError")
            /\ UNCHANGED <<cleanFile, cleanRuns, persists>>
       ELSE /\ cleanRuns' = cleanRuns + 1
            /\ IF ToDatetimeRaises(remoteTrips)
               THEN /\ Raise(th, "ParseError")
                    /\ UNCHANGED <<cleanFile, persists>>
               ELSE /\ cleanFile' = Unreadable
                    /\ persists' = persists + 1
                    /\ LET both == pc[Other(th)].step = "persist"
                       IN pc' = [pc EXCEPT
                                   ![th] = [@ EXCEPT !.step = "persist",
                                                     !.mixed = both],
                                   ![Other(th)] =
                                       [@ EXCEPT !.mixed = @ \/ both]]
                    /\ UNCHANGED <<outcome, loaded, memoOverview,
                                   memoDashboard>>
    /\ UNCHANGED <<remoteTrips, tripsFile, zonesFile, calls, requests, writes,
                   loads, dashVars>>

\* to_parquet writes the row groups and the footer in place and the loader
\* returns its frame.  When the other loader wrote the same path at the
\* same time the bytes of the two are mixed: the file is this loader's only
\* if every byte of it was written last by this loader
Persist(th) ==
    /\ pc[th].step = "persist"
    /\ \E whole \in (IF pc[th].mixed THEN BOOLEAN ELSE {TRUE}) :
          cleanFile' = IF whole THEN Artifact(Cleaned(th)) ELSE Unreadable
    /\ Return(th, Returned(th, Cleaned(th)))
    /\ UNCHANGED <<remoteTrips, tripsFile, zonesFile, calls, requests, writes,
                   cleanRuns, persists, loads, dashVars>>

\* the server process restarts: st.cache_data is in-process, the files stay
ClearMemo ==
    /\ \A th \in Loaders : pc[th] = Idle
    /\ memoOverview.has \/ memoDashboard.has
    /\ memoOverview' = NoFrame
    /\ memoDashboard' = NoFrame
    /\ UNCHANGED <<remoteTrips, tripsFile, zonesFile, cleanFile, outcome,
                   loaded, calls, requests, writes, cleanRuns, persists,
                   loads, pc, dashVars>>

NaN == [k |-> "nan", v |-> 0]

EmptyPivot == [index |-> <<>>, columns |-> <<>>, cells |-> <<>>]

\* the script has not run: none of its names is bound
DashIdle ==
    /\ df = <<>> /\ tieOrder = "stable"
    /\ date_range = <<>>
    /\ start_date = NaN /\ end_date = NaN /\ hour_min = 0 /\ hour_max = 0
    /\ selected_payments = {}
    /\ filtered = <<>> /\ top10 = <<>> /\ hourly_fare = <<>> /\ pay = <<>>
    /\ pivot = EmptyPivot
    /\ stage = "start"

\* a fresh container: no local file, nothing memoised, no load in progress
InitBoot ==
    /\ remoteTrips \in RawFrames
    /\ tripsFile = Absent /\ zonesFile = Absent
    /\ cleanFile = NoFile
    /\ memoOverview = NoFrame /\ memoDashboard = NoFrame
    /\ outcome = "none" /\ loaded = <<>>
    /\ calls = [p \in Paths |-> 0]
    /\ requests = [p \in Paths |-> 0]
    /\ writes = [p \in Paths |-> 0]
    /\ cleanRuns = 0 /\ persists = 0 /\ loads = 0
    /\ pc = [th \in Loaders |-> Idle]
    /\ DashIdle

NextLoad ==
    \/ \E th \in Loaders :
          \/ StartLoad(th)
          \/ CheckExists(th)
          \/ Request(th)
          \/ Stream(th)
          \/ ReadZones(th)
          \/ ReadArtifact(th)
          \/ BuildArtifact(th)
          \/ Persist(th)
    \/ ClearMemo

Spec == InitBoot /\ [][NextLoad]_vars

----------------------------------------------------------------------------
(* Claims about the cleaning transform, checked under Spec *)

\* every frame a loader has produced: the last returned one and the artifact
CleanedRows ==
    {loaded[i] : i \in 1..Len(loaded)}
    \cup {cleanFile.rows[i] : i \in 1..Len(cleanFile.rows)}

\* C1: every cleaned row has dropoff >= pickup, 0 < distance < 50,
\* 0 <= fare <= 500, passenger_count > 0 and duration_minutes >= 0, none of
\* these cells null
C1_CleanedRowsInRange ==
    \A r \in CleanedRows :
        /\ IsOk(r.tpep_pickup_datetime) /\ IsOk(r.tpep_dropoff_datetime)
        /\ r.tpep_dropoff_datetime.v >= r.tpep_pickup_datetime.v
        /\ IsOk(r.trip_distance)
        /\ 0 < r.trip_distance.v /\ r.trip_distance.v < 50
        /\ IsOk(r.fare_amount)
        /\ 0 <= r.fare_amount.v /\ r.fare_amount.v <= 500
        /\ IsOk(r.passenger_count) /\ r.passenger_count.v > 0
        /\ r.trip_duration_minutes >= 0

\* a load cleaned a two-row file, kept one row and dropped the other
C1_Witness ==
    /\ outcome = "ok" /\ cleanRuns = 1
    /\ Len(remoteTrips) = 2 /\ Len(loaded) = 1
    /\ remoteTrips[1].trip_distance = Cell(50)

\* C6: trip_speed_mph of every cleaned row is a finite number >= 0, equal to
\* distance / (duration_minutes / 60) (integer part), and 0 when the
\* duration is 0
C6_SpeedFinite ==
    \A r \in CleanedRows :
        /\ r.trip_speed_mph.k = "ok"
        /\ r.trip_speed_mph.v >= 0
        /\ r.trip_duration_minutes = 0 => r.trip_speed_mph.v = 0
        /\ r.trip_duration_minutes > 0 =>
              /\ r.trip_speed_mph.v * r.trip_duration_minutes
                    <= r.trip_distance.v * 60
              /\ r.trip_distance.v * 60
                    < (r.trip_speed_mph.v + 1) * r.trip_duration_minutes

\* a cleaned row whose dropoff equals its pickup, next to one that moved
C6_Witness ==
    /\ outcome = "ok" /\ Len(loaded) = 2
    /\ loaded[1].trip_duration_minutes = 0
    /\ loaded[2].trip_speed_mph = Cell(8)

WellFormed(r) ==
    r.tpep_pickup_datetime.k # "bad" /\ r.tpep_dropoff_datetime.k # "bad"

\* C7: once the cleaning steps have run, no load ended in the exception of
\* a malformed timestamp, and the artifact holds the cleaned rows of the
\* file without its malformed rows
C7_MalformedRowDropped ==
    /\ outcome # "ParseError"
    /\ cleanFile.ok =>
          WithPickupDates(cleanFile.rows)
            = WithPickupDates(CleanRows(SelectSeq(remoteTrips, WellFormed)))

----------------------------------------------------------------------------
(* Claims about the loaders and the fetcher, checked under Spec *)

\* C8: over any sequence of loads the cleaning steps run at most once
C8_CleaningRunsAtMostOnce == cleanRuns <= 1

\* C9: no path is downloaded twice: it is opened for writing at most once
C9_NoRedownload == \A p \in Paths : writes[p] <= 1

\* C10: once no download is in progress, a raw path that exists holds the
\* complete remote content
C10_NoPartialFile ==
    (\A th \in Loaders : pc[th].step # "stream") =>
        \A p \in Paths : File(p).exists => Complete(File(p))

\* what the loaders keep under every interleaving: a download_file call
\* that finds its path makes no request and writes nothing, and once
\* CLEAN_PATH exists only a loader already past its test for it cleans or
\* writes the artifact
LoaderStepwise ==
    [][/\ \A th \in Loaders :
            (pc[th].step = "exists" /\ File(pc[th].path).exists
               /\ pc'[th] # pc[th])
            => /\ pc'[th].step \notin {"get", "stream"}
               /\ UNCHANGED <<tripsFile, zonesFile, requests, writes>>
       /\ (cleanFile.exists
             /\ \A th \in Loaders : pc[th].step \notin {"build", "persist"})
            => UNCHANGED <<cleanFile, cleanRuns, persists>>]_vars

----------------------------------------------------------------------------
(* Dashboard script: sidebar filters *)

Min(S) == CHOOSE x \in S : \A y \in S : x <= y
Max(S) == CHOOSE x \in S : \A y \in S : x >= y

Column(frame, col) == {frame[i][col] : i \in 1..Len(frame)}

\* df["pickup_date"].min() / .max(): a date cell, NaN on an empty frame
MinDate(frame) ==
    IF frame = <<>> THEN NaN ELSE Cell(Min(Column(frame, "pickup_date")))
MaxDate(frame) ==
    IF frame = <<>> THEN NaN ELSE Cell(Max(Column(frame, "pickup_date")))

\* sorted(df["payment_name"].dropna().unique().tolist()), as a set
PaymentOptions(frame) ==
    {c.v : c \in {x \in Column(frame, "payment_name") : IsOk(x)}}

\* the boolean mask of `filtered` on one row
FilterRow(r, sd, ed, h0, h1, sel) ==
    /\ r.pickup_date >= sd
    /\ r.pickup_date <= ed
    /\ r.pickup_hour >= h0
    /\ r.pickup_hour <= h1
    /\ IsOk(r.payment_name) /\ r.payment_name.v \in sel

\* filtered = df[mask].copy(): the rows that pass, in the order of df
Filtered(frame, sd, ed, h0, h1, sel) ==
    SelectSeq(frame, LAMBDA r : FilterRow(r, sd, ed, h0, h1, sel))

----------------------------------------------------------------------------
(* Dashboard script: cached aggregations *)

\* rows of a table t in sort_values(count, ascending=False) order.  The
\* default kind is quicksort, which is not stable: rows of equal count come
\* out in their input order on some builds ("stable") and not on others
\* ("reversed" is the opposite extreme)
RECURSIVE SortCountDescending(_, _)
SortCountDescending(t, tie) ==
    IF t = <<>> THEN <<>>
    ELSE LET top == Max({t[i].trip_count : i \in 1..Len(t)})
             at == {i \in 1..Len(t) : t[i].trip_count = top}
             pick == IF tie = "stable" THEN Min(at) ELSE Max(at)
             rest == [i \in 1..(Len(t) - 1) |-> IF i < pick THEN t[i] ELSE t[i + 1]]
         IN <<t[pick]>> \o SortCountDescending(rest, tie)

HeadRows(t, n) == SubSeq(t, 1, IF Len(t) < n THEN Len(t) ELSE n)

KeyLess(a, b) == a[1] < b[1] \/ (a[1] = b[1] /\ a[2] < b[2])

RECURSIVE SortedKeys(_)
SortedKeys(S) ==
    IF S = {} THEN <<>>
    ELSE LET m == CHOOSE x \in S : \A y \in S : x = y \/ KeyLess(x, y)
         IN <<m>> \o SortedKeys(S \ {m})

\* groupby drops the rows whose key has a null (dropna=True)
HasZoneKey(r) == IsOk(r.pickup_zone) /\ IsOk(r.pickup_borough)
ZoneKey(r) == <<r.pickup_zone.v, r.pickup_borough.v>>
ZoneKeys(df_in) ==
    {ZoneKey(df_in[i]) : i \in {j \in 1..Len(df_in) : HasZoneKey(df_in[j])}}
ZoneCount(df_in, key) ==
    Cardinality({i \in 1..Len(df_in) :
                    HasZoneKey(df_in[i]) /\ ZoneKey(df_in[i]) = key})

\* groupby(["pickup_zone", "pickup_borough"]).size().reset_index(...):
\* one row per group, groups in sorted key order (sort=True)
ZoneGroups(df_in) ==
    LET keys == SortedKeys(ZoneKeys(df_in))
    IN [i \in 1..Len(keys) |->
          [pickup_zone |-> keys[i][1], pickup_borough |-> keys[i][2],
           trip_count |-> ZoneCount(df_in, keys[i])]]

TOP_N == 10

agg_top10_zones_nohead(df_in, tie) ==
    SortCountDescending(ZoneGroups(df_in), tie)

agg_top10_zones(df_in, tie) ==
    HeadRows(SortCountDescending(ZoneGroups(df_in), tie), TOP_N)

RECURSIVE SortedInts(_)
SortedInts(S) ==
    IF S = {} THEN <<>> ELSE <<Min(S)>> \o SortedInts(S \ {Min(S)})

RECURSIVE SumFare(_)
SumFare(rows) ==
    IF rows = <<>> THEN 0 ELSE Head(rows).fare_amount.v + SumFare(Tail(rows))

\* groupby("pickup_hour")["fare_amount"].mean(), hours ascending; the mean
\* is kept as its integer part
agg_hourly_fare(df_in) ==
    LET hours == SortedInts(Column(df_in, "pickup_hour"))
    IN [i \in 1..Len(hours) |->
          LET rows == SelectSeq(df_in, LAMBDA r : r.pickup_hour = hours[i])
          IN [pickup_hour |-> hours[i],
              fare_amount |-> SumFare(rows) \div Len(rows)]]

\* distinct non-null values of a column in order of first appearance
RECURSIVE FirstSeen(_, _)
FirstSeen(cells, seen) ==
    IF cells = <<>> THEN <<>>
    ELSE IF ~IsOk(Head(cells)) \/ Head(cells).v \in seen
         THEN FirstSeen(Tail(cells), seen)
         ELSE <<Head(cells).v>> \o FirstSeen(Tail(cells), seen \cup {Head(cells).v})

\* df_in["payment_name"].value_counts().reset_index(), two columns
agg_payment(df_in, tie) ==
    LET col == [i \in 1..Len(df_in) |-> df_in[i].payment_name]
        names == FirstSeen(col, {})
    IN SortCountDescending(
          [i \in 1..Len(names) |->
              [payment_name |-> names[i],
               trip_count |-> Cardinality({j \in 1..Len(col) :
                                              col[j] = Cell(names[i])})]],
          tie)

\* groupby([day, hour], observed=False).size() has one entry for every
\* category of the categorical day and every hour that occurs in df_in;
\* pivot(...).fillna(0) lays them out day x hour
agg_heatmap(df_in) ==
    LET hours == SortedInts(Column(df_in, "pickup_hour"))
        days == IF hours = <<>> THEN <<>> ELSE DAY_ORDER
    IN [index |-> days,
        columns |-> hours,
        cells |-> [d \in 1..Len(days), h \in 1..Len(hours) |->
                      Cardinality({i \in 1..Len(df_in) :
                          /\ df_in[i].pickup_day_of_week = days[d]
                          /\ df_in[i].pickup_hour = hours[h]})]]

----------------------------------------------------------------------------
(* Dashboard script: one run per interaction *)

\* rows of a dashboard frame in the small-frame family
MaxDashRows == 2
\* rows appended to the many-zone frames
MaxExtra == 1

\* slider ranges offered to a run: the default, the hours before the
\* example trip's, its hour and those after
HourRanges == {<<0, 23>>, <<0, 7>>, <<8, 23>>}

\* a raw row: the example trip moved to minute t, paid by `payc`, picked up
\* in zone pu
Trip(t, payc, pu) ==
    [GoodRow EXCEPT !.tpep_pickup_datetime = Cell(t),
                    !.tpep_dropoff_datetime = Cell(t + 15),
                    !.payment_type = payc,
                    !.PULocationID = Cell(pu)]

BaseTime == GoodRow.tpep_pickup_datetime.v

\* the example trip with its time, its payment or its zone changed:
\* the first and last minute of the month, an unmapped payment code,
\* another zone
DashTrips ==
    {Trip(BaseTime, Cell(1), 1)}
    \cup {Trip(t, Cell(1), 1) : t \in {MonthStart, MonthEnd - 1}}
    \cup {Trip(BaseTime, Cell(9), 1)}
    \cup {Trip(BaseTime, Cell(1), 2)}

\* one trip per named zone, zones ascending or descending, then a few more
\* from the first or the last named zone, the nameless one or one absent
\* from the lookup
ZoneRun(up) ==
    [i \in 1..NumZones |->
        Trip(BaseTime, Cell(1), IF up THEN i ELSE NumZones + 1 - i)]
ManyZoneFrames ==
    {ZoneRun(up) \o extra :
        up \in BOOLEAN,
        extra \in SeqsUpTo({Trip(BaseTime, Cell(1), z) :
                                z \in {0, 1, NumZones, NumZones + 1}},
                           MaxExtra)}

\* remote trip files the dashboard is run on
DashFrames == SeqsUpTo(DashTrips, MaxDashRows) \cup ManyZoneFrames

\* the container after one load_data() run that fetched both files, cleaned
\* the trip file, wrote CLEAN_PATH and filled the memo; the script below
\* line 143 has not run yet
InitDash ==
    /\ remoteTrips \in DashFrames
    /\ tripsFile = WholeFile /\ zonesFile = WholeFile
    /\ cleanFile = Artifact(CleanRows(remoteTrips))
    /\ memoOverview = NoFrame
    /\ memoDashboard =
          [has |-> TRUE, df |-> Enrich(CleanRows(remoteTrips), ZONE_LOOKUP)]
    /\ outcome = "ok" /\ loaded = memoDashboard.df
    /\ calls = [p \in Paths |-> 1]
    /\ requests = [p \in Paths |-> 1]
    /\ writes = [p \in Paths |-> 1]
    /\ cleanRuns = 1 /\ persists = 1 /\ loads = 1
    /\ pc = [th \in Loaders |-> Idle]
    /\ df = <<>>
    /\ tieOrder \in {"stable", "reversed"}
    /\ date_range = <<>>
    /\ start_date = NaN /\ end_date = NaN /\ hour_min = 0 /\ hour_max = 0
    /\ selected_payments = {}
    /\ filtered = <<>> /\ top10 = <<>> /\ hourly_fare = <<>> /\ pay = <<>>
    /\ pivot = EmptyPivot
    /\ stage = "start"

\* what st.sidebar.date_input can return for a range: both ends, or the
\* tuple of a selection that is half made (one date) or not begun (none)
DateRanges(frame) ==
    LET dates == Column(frame, "pickup_date")
    IN {<<sd, ed>> : sd \in dates, ed \in dates} \cup {<<sd>> : sd \in dates}
         \cup {<<>>}

\* start_date and end_date are date cells; when date_range is not a pair
\* both names are bound to the tuple itself
TupleValue(t) == [k |-> "tuple", v |-> Len(t)]

\* the script's names when it raised before the filter ran
NoView ==
    /\ filtered' = <<>>
    /\ top10' = <<>> /\ hourly_fare' = <<>> /\ pay' = <<>>
    /\ pivot' = EmptyPivot

\* one run of the script on a filled memo: df = load_data() is a memo hit,
\* then the sidebar selections, the filter, the empty-state stop and the
\* four pre-aggregations.  The run raises in date_input when the frame is
\* empty (min and max are NaN) and in the mask when date_range is not a
\* pair (a date compared with a tuple)
Rerun ==
    /\ pc["load_data"] = Idle
    /\ memoDashboard.has
    /\ df' = memoDashboard.df
    /\ outcome' = "ok"
    /\ loaded' = memoDashboard.df
    /\ UNCHANGED <<remoteTrips, tripsFile, zonesFile, cleanFile, memoOverview,
                   memoDashboard, calls, requests, writes, cleanRuns,
                   persists, loads, pc, tieOrder>>
    /\ IF ~IsOk(MinDate(df')) \/ ~IsOk(MaxDate(df'))
       THEN /\ stage' = "raised"
            /\ date_range' = <<>>
            /\ start_date' = NaN /\ end_date' = NaN
            /\ hour_min' = 0 /\ hour_max' = 0
            /\ selected_payments' = {}
            /\ NoView
       ELSE \E dr \in DateRanges(df'), hr \in HourRanges,
               sel \in SUBSET PaymentOptions(df') :
              /\ Len(dr) = 2 => dr[1] <= dr[2]
              /\ date_range' = dr
              /\ hour_min' = hr[1] /\ hour_max' = hr[2]
              /\ selected_payments' = sel
              /\ IF Len(dr) = 2
                 THEN /\ start_date' = Cell(dr[1]) /\ end_date' = Cell(dr[2])
                      /\ filtered' = Filtered(df', dr[1], dr[2], hr[1], hr[2], sel)
                      /\ IF Len(filtered') = 0
                         THEN /\ stage' = "stopped"
                              /\ top10' = <<>> /\ hourly_fare' = <<>>
                              /\ pay' = <<>> /\ pivot' = EmptyPivot
                         ELSE /\ stage' = "rendered"
                              /\ top10' = agg_top10_zones(filtered', tieOrder)
                              /\ hourly_fare' = agg_hourly_fare(filtered')
                              /\ pay' = agg_payment(filtered', tieOrder)
                              /\ pivot' = agg_heatmap(filtered')
                 ELSE /\ start_date' = TupleValue(dr)
                      /\ end_date' = TupleValue(dr)
                      /\ stage' = "raised"
                      /\ NoView

SpecDash == InitDash /\ [][Rerun]_vars

----------------------------------------------------------------------------
(* Claims about the dashboard script, checked under SpecDash *)

RECURSIVE SumSeq(_)
SumSeq(q) == IF q = <<>> THEN 0 ELSE Head(q) + SumSeq(Tail(q))

PivotTotal(p) ==
    SumSeq([d \in 1..Len(p.index) |->
              SumSeq([h \in 1..Len(p.columns) |-> p.cells[d, h]])])

\* C2: the heatmap of every rendered view has the 7 weekdays Monday..Sunday
\* as rows and the 24 hours 0..23 as columns, every cell >= 0, and the
\* cells sum to the number of rows of the view
C2_Heatmap7x24 ==
    stage = "rendered" =>
        /\ pivot.index = DAY_ORDER
        /\ pivot.columns = [h \in 1..24 |-> h - 1]
        /\ \A d \in 1..Len(pivot.index), h \in 1..Len(pivot.columns) :
              pivot.cells[d, h] >= 0
        /\ PivotTotal(pivot) = Len(filtered)

\* zone groups of a view in order of first appearance
RECURSIVE FirstSeenKeys(_, _)
FirstSeenKeys(rows, seen) ==
    IF rows = <<>> THEN <<>>
    ELSE IF ~HasZoneKey(Head(rows)) \/ ZoneKey(Head(rows)) \in seen
         THEN FirstSeenKeys(Tail(rows), seen)
         ELSE <<ZoneKey(Head(rows))>>
                \o FirstSeenKeys(Tail(rows), seen \cup {ZoneKey(Head(rows))})

FirstSeenTop10(view) ==
    LET keys == FirstSeenKeys(view, {})
    IN HeadRows(
          SortCountDescending(
             [i \in 1..Len(keys) |->
                 [pickup_zone |-> keys[i][1], pickup_borough |-> keys[i][2],
                  trip_count |-> ZoneCount(view, keys[i])]],
             "stable"),
          10)

\* C3 as stated: the top zones are the groups ordered by count descending,
\* ties in first-seen group order, cut to 10 (read on a build whose sort
\* keeps equal counts in input order)
C3_TiesFirstSeen ==
    (stage = "rendered" /\ tieOrder = "stable") =>
        top10 = FirstSeenTop10(filtered)

TopKeys == {<<top10[i].pickup_zone, top10[i].pickup_borough>> : i \in 1..Len(top10)}

\* C3 as amended: the top zones are groups of the view with non-null zone
\* and borough, each once and with its row count, at most 10 of them and
\* all of them when there are fewer, counts non-increasing, and no group
\* left out has more rows than one kept
C3_Top10Sorted ==
    stage = "rendered" =>
        /\ Len(top10) <= 10
        /\ Len(top10) = IF Cardinality(ZoneKeys(filtered)) < 10
                        THEN Cardinality(ZoneKeys(filtered)) ELSE 10
        /\ Cardinality(TopKeys) = Len(top10)
        /\ TopKeys \subseteq ZoneKeys(filtered)
        /\ \A i \in 1..Len(top10) :
              top10[i].trip_count =
                 Cardinality({j \in 1..Len(filtered) :
                    /\ filtered[j].pickup_zone = Cell(top10[i].pickup_zone)
                    /\ filtered[j].pickup_borough = Cell(top10[i].pickup_borough)})
        /\ \A i \in 1..Len(top10), j \in 1..Len(top10) :
              i < j => top10[i].trip_count >= top10[j].trip_count
        /\ \A k \in ZoneKeys(filtered) \ TopKeys :
              \A i \in 1..Len(top10) : ZoneCount(filtered, k) <= top10[i].trip_count

\* more than 10 groups, one of them with two trips: the cut and a tie show
C3_Witness ==
    /\ stage = "rendered"
    /\ Cardinality(ZoneKeys(filtered)) > 10
    /\ Len(top10) = 10
    /\ top10[1].trip_count = 2
    /\ top10[2].trip_count = 1 /\ top10[10].trip_count = 1

\* the widgets left as the script sets them: the date range from the first
\* to the last pickup date, hours 0 to 23, every payment label
DefaultSelections ==
    /\ Len(date_range) = 2
    /\ start_date = MinDate(df) /\ end_date = MaxDate(df)
    /\ hour_min = 0 /\ hour_max = 23
    /\ selected_payments = PaymentOptions(df)

\* C4: with the full date range, hours [0, 23] and every payment label
\* selected, the run does not raise and the filtered frame is the whole
\* frame, rows in the same order
C4_DefaultsKeepAll ==
    (stage # "start" /\ DefaultSelections) =>
        (stage # "raised" /\ filtered = df)

\* the defaults on a frame with a trip in the first hour of the month and a
\* later trip with an unmapped payment code
C4_Witness ==
    /\ stage = "rendered" /\ DefaultSelections
    /\ Len(df) = 2
    /\ df[1].pickup_hour = 0 /\ df[2].pickup_hour = 8
    /\ df[2].payment_name = Cell("Other")
    /\ filtered = df

EmptyForms(view) ==
    /\ Len(view) = 0
    /\ agg_top10_zones(view, tieOrder) = <<>>
    /\ agg_hourly_fare(view) = <<>>
    /\ agg_payment(view, tieOrder) = <<>>
    /\ agg_heatmap(view) = EmptyPivot

\* C5: with no payment label selected, on every dataset, the view has 0
\* rows, the run ends in the empty state rather than an exception, and each
\* of the four aggregations of that view is its empty form
C5_EmptySelection ==
    (stage # "start" /\ selected_payments = {}) =>
        (stage = "stopped" /\ EmptyForms(filtered))

\* the part of C5 the script keeps: on a frame with rows and a date range
\* with both ends, no label selected ends the run in the empty state
C5_EmptySelectionOnRows ==
    (stage # "start" /\ selected_payments = {}
       /\ Len(df) > 0 /\ Len(date_range) = 2) =>
        (stage = "stopped" /\ EmptyForms(filtered))

============================================================================
